---- MODULE Spec2Model ----
(***************************************************************************)
(* The read-only query gateway of app.py: four Flask routes, each of which *)
(* opens a MongoDB client, validates the query-string parameters, runs one *)
(* find / find_one, shapes the JSON answer and closes the client in its    *)
(* finally block.                                                          *)
(*                                                                         *)
(* Strings that the code inspects character by character (query-string    *)
(* parameters, ObjectId hex strings) are sequences of one-character        *)
(* strings; the character U+00B2 (SUPERSCRIPT TWO) is written "sup2".      *)
(* Strings the code only passes through (titles, messages, YAML texts) are *)
(* TLA+ strings.                                                           *)
(***************************************************************************)
EXTENDS Integers, Sequences, FiniteSets, TLC

(* ----------------------------- bounds --------------------------------- *)

\* number of request slots (server threads) of the model
NReq == 2

\* longest record collection Init draws
MaxRecords == 2

(* ------------------------- Python built-ins --------------------------- *)

\* request.args.get(k) of a parameter that is not in the query string
None == <<"None">>

AsciiDigits == <<"0", "1", "2", "3", "4", "5", "6", "7", "8", "9">>

HexDigits == <<"0", "1", "2", "3", "4", "5", "6", "7", "8", "9", "a", "b", "c", "d", "e", "f">>

UpperHex == <<"A", "B", "C", "D", "E", "F">>

Range(s) == {s[i] : i \in DOMAIN s}

IndexOf(s, c) == CHOOSE i \in DOMAIN s : s[i] = c

\* str.isdigit(): non-empty and every character has the Unicode digit
\* property, which U+00B2 has although it is no decimal digit
isdigit(s) == Len(s) > 0 /\ \A i \in DOMAIN s : s[i] \in Range(AsciiDigits) \cup {"sup2"}

RECURSIVE DecimalValue(_)
DecimalValue(s) ==
    IF s = <<>> THEN 0
    ELSE 10 * DecimalValue(SubSeq(s, 1, Len(s) - 1)) + (IndexOf(AsciiDigits, s[Len(s)]) - 1)

\* int(x) of a str: an optional sign, then one or more decimal digits;
\* anything else raises ValueError
int(s) ==
    LET signed == Len(s) > 0 /\ s[1] \in {"+", "-"}
        digits == IF signed THEN Tail(s) ELSE s
    IN  IF Len(digits) > 0 /\ \A i \in DOMAIN digits : digits[i] \in Range(AsciiDigits)
        THEN [ok |-> TRUE,
              v |-> IF signed /\ s[1] = "-" THEN 0 - DecimalValue(digits) ELSE DecimalValue(digits)]
        ELSE [ok |-> FALSE, v |-> 0]

RECURSIVE DecimalString(_)
DecimalString(n) ==
    IF n < 10 THEN <<AsciiDigits[n + 1]>>
    ELSE Append(DecimalString(n \div 10), AsciiDigits[(n % 10) + 1])

HexValue(c) ==
    IF c \in Range(UpperHex) THEN 9 + IndexOf(UpperHex, c) ELSE IndexOf(HexDigits, c) - 1

\* bson ObjectId(str): exactly 24 hexadecimal characters of either case,
\* kept as 12 bytes; anything else raises InvalidId
ObjectId(s) ==
    IF Len(s) = 24 /\ \A i \in DOMAIN s : s[i] \in Range(HexDigits) \cup Range(UpperHex)
    THEN [ok |-> TRUE,
          v |-> [i \in 1..12 |-> 16 * HexValue(s[2 * i - 1]) + HexValue(s[2 * i])]]
    ELSE [ok |-> FALSE, v |-> <<>>]

RECURSIVE HexString(_)
\* str(ObjectId): the lower-case hex string of the 12 bytes
HexString(bytes) ==
    IF bytes = <<>> THEN <<>>
    ELSE <<HexDigits[(Head(bytes) \div 16) + 1], HexDigits[(Head(bytes) % 16) + 1]>>
         \o HexString(Tail(bytes))

\* str(x) of a stored docId: an ObjectId, a number, or None when absent
str(x) ==
    CASE x.ty = "ObjectId" -> HexString(x.v)
      [] x.ty = "int" -> DecimalString(x.v)
      [] OTHER -> <<"N", "o", "n", "e">>

\* dict.get(key, default)
Get(d, k, default) == IF k \in DOMAIN d THEN d[k] ELSE default

(* ------------------------------ YAML ---------------------------------- *)

\* A parsed YAML document: None, or a mapping (a function from keys to
\* values; the empty mapping is <<>>).
PyNone == [ty |-> "NoneType"]

PyDict(d) == [ty |-> "dict", d |-> d]

PyList(l) == [ty |-> "list", l |-> l]

\* yaml.safe_load of the config texts the document collection holds
yaml_safe_load(text) ==
    CASE text = "" -> [ok |-> TRUE, v |-> PyNone]
      [] text = "{}" -> [ok |-> TRUE, v |-> PyDict(<<>>)]
      [] text = "type: default" -> [ok |-> TRUE, v |-> PyDict([type |-> "default"])]
      [] text = "subtasks: []" -> [ok |-> TRUE, v |-> PyDict([subtasks |-> PyList(<<>>)])]
      [] text = "subtasks:" -> [ok |-> TRUE, v |-> PyDict([subtasks |-> PyNone])]
      [] text = "subtasks:\n- score: 30\n- score: 70" ->
            [ok |-> TRUE, v |-> PyDict([subtasks |-> PyList(<<[score |-> 30], [score |-> 70]>>)])]
      [] text = "subtasks:\n- score: 50\n- id: 2" ->
            [ok |-> TRUE, v |-> PyDict([subtasks |-> PyList(<<[score |-> 50], [id |-> 2]>>)])]
      [] OTHER -> [ok |-> FALSE, v |-> PyNone]

\* truth value of a parsed document: None and the empty mapping are false
Truthy(v) == v.ty = "dict" /\ DOMAIN v.d # {}

RECURSIVE SumScores(_)
\* lines 81-82: total_score += subtask.get('score', 0)
SumScores(l) == IF l = <<>> THEN 0 ELSE Get(Head(l), "score", 0) + SumScores(Tail(l))

\* lines 78-82: the score of one config, or the exception the loop raises
\* (iterating None raises TypeError)
TotalScore(text) ==
    LET loaded == yaml_safe_load(text)
        config_data == loaded.v
    IN  IF ~loaded.ok THEN [exc |-> "YAMLError", score |-> 0]
        ELSE IF Truthy(config_data) /\ "subtasks" \in DOMAIN config_data.d
             THEN IF config_data.d.subtasks.ty = "list"
                  THEN [exc |-> "none", score |-> SumScores(config_data.d.subtasks.l)]
                  ELSE [exc |-> "TypeError", score |-> 0]
             ELSE [exc |-> "none", score |-> 0]

(* --------------------------- the database ----------------------------- *)

Repeat(c, n) == [i \in 1..n |-> c]

\* the ObjectId whose last byte is n
Oid(n) == [i \in 1..12 |-> IF i = 12 THEN n ELSE 0]

D1 == <<"d", "1">>

D2 == <<"d", "2">>

ContestAText == <<"5", "f">> \o Repeat("0", 20) \o <<"a", "b">>

ContestAUpper == <<"5", "F">> \o Repeat("0", 20) \o <<"A", "B">>

ContestBText == Repeat("1", 24)

ShortText == Repeat("1", 23)

NonHexText == Repeat("1", 23) \o <<"g">>

ContestA == ObjectId(ContestAText).v

ContestB == ObjectId(ContestBText).v

\* the document collection: contests (docType 30) and problems (docType 10)
Documents ==
    << [_id |-> Oid(1), domainId |-> D1, docType |-> 30, docId |-> [ty |-> "ObjectId", v |-> ContestA],
        title |-> "Round 1", beginAt |-> "2024-01-01T00:00:00", pids |-> <<1, 2>>],
       [_id |-> Oid(2), domainId |-> D1, docType |-> 30, docId |-> [ty |-> "int", v |-> 17],
        title |-> "Round 2"],
       [_id |-> Oid(3), domainId |-> D1, docType |-> 10, docId |-> 1, title |-> "A+B", pid |-> "P1000",
        config |-> "subtasks:\n- score: 30\n- score: 70"],
       [_id |-> Oid(4), domainId |-> D1, docType |-> 10, docId |-> 2, title |-> "Broken", pid |-> "P1001",
        config |-> "subtasks: ["],
       [_id |-> Oid(5), domainId |-> D1, docType |-> 10, docId |-> 3, title |-> "Partial", pid |-> "P1002",
        config |-> "subtasks:\n- score: 50\n- id: 2"],
       [_id |-> Oid(6), domainId |-> D1, docType |-> 10, docId |-> 4, title |-> "Empty", pid |-> "P1003",
        config |-> ""],
       [_id |-> Oid(7), domainId |-> D1, docType |-> 10, docId |-> 5, title |-> "Plain", pid |-> "P1004",
        config |-> "type: default"],
       [_id |-> Oid(8), domainId |-> D1, docType |-> 10, docId |-> 6, title |-> "NoTasks", pid |-> "P1005",
        config |-> "subtasks: []"],
       [_id |-> Oid(9), domainId |-> D1, docType |-> 10, docId |-> 7, title |-> "Braces", pid |-> "P1006",
        config |-> "{}"],
       [_id |-> Oid(10), domainId |-> D2, docType |-> 10, docId |-> 1, title |-> "Broken2", pid |-> "P1",
        config |-> "subtasks: ["],
       [_id |-> Oid(11), domainId |-> D2, docType |-> 10, docId |-> 2, title |-> "NullTasks", pid |-> "P2",
        config |-> "subtasks:"],
       [_id |-> Oid(12), domainId |-> D2, docType |-> 10, docId |-> 3, title |-> "Good", pid |-> "P3",
        config |-> "subtasks:\n- score: 30\n- score: 70"] >>

Users == << [_id |-> 42, uname |-> "alice"], [_id |-> 1, uname |-> "root"] >>

UserGroups ==
    << [_id |-> Oid(21), domainId |-> D1, name |-> "class A", uids |-> <<42, 1>>],
       [_id |-> Oid(22), domainId |-> D1, name |-> "class B"] >>

RecordKeys == {[domainId |-> d, contest |-> c] : d \in {D1, D2}, c \in {ContestA, ContestB}}

SeqsUpTo(S, n) == UNION {[1..k -> S] : k \in 0..n}

\* the record collection with the given (domainId, contest) keys; judgeAt is
\* stored on the odd positions only
RecordsOf(keys) ==
    [i \in DOMAIN keys |->
        IF i % 2 = 1
        THEN [_id |-> Oid(100 + i), domainId |-> keys[i].domainId, contest |-> keys[i].contest,
              status |-> 1, uid |-> 42, pid |-> i, score |-> 100, judgeAt |-> "2024-01-02T00:00:00"]
        ELSE [_id |-> Oid(100 + i), domainId |-> keys[i].domainId, contest |-> keys[i].contest,
              status |-> 1, uid |-> 42, pid |-> i, score |-> 100]]

Database(keys) ==
    [document |-> Documents, record |-> RecordsOf(keys), user |-> Users, user_group |-> UserGroups]

(* ----------------------------- requests ------------------------------- *)

Requests == 1..NReq

Args(domainId, docType, contest, id) ==
    [domainId |-> domainId, docType |-> docType, contest |-> contest, _id |-> id]

NoRequest == [route |-> "none", args |-> Args(None, None, None, None)]

DomainArgs == {None, <<>>, D1, D2}

DocTypeArgs == {None, <<"1", "0">>, <<"3", "0">>, <<"9", "9">>, <<"a", "b", "c">>}

ContestArgs == {None, ContestAText, ContestAUpper, ContestBText, ShortText, NonHexText}

IdArgs == {None, <<>>, <<"4", "2">>, <<"0", "4", "2">>, <<"7">>, <<"4", "a">>, <<"sup2">>}

AllInputs ==
    {[route |-> "/hydro/document", args |-> Args(d, t, None, None)] : d \in DomainArgs, t \in DocTypeArgs}
    \cup {[route |-> "/hydro/record", args |-> Args(d, None, c, None)] : d \in DomainArgs, c \in ContestArgs}
    \cup {[route |-> "/hydro/user", args |-> Args(None, None, None, i)] : i \in IdArgs}
    \cup {[route |-> "/hydro/user/group", args |-> Args(d, None, None, None)] : d \in DomainArgs}

\* one request for each way out of the handlers
PathInputs ==
    { [route |-> "/hydro/document", args |-> Args(D1, <<"1", "0">>, None, None)],
      [route |-> "/hydro/document", args |-> Args(None, <<"3", "0">>, None, None)],
      [route |-> "/hydro/document", args |-> Args(D1, <<"a", "b", "c">>, None, None)],
      [route |-> "/hydro/record", args |-> Args(D1, None, ContestAText, None)],
      [route |-> "/hydro/record", args |-> Args(D1, None, ShortText, None)],
      [route |-> "/hydro/user", args |-> Args(None, None, None, <<"4", "2">>)],
      [route |-> "/hydro/user", args |-> Args(None, None, None, <<"7">>)],
      [route |-> "/hydro/user/group", args |-> Args(D1, None, None, None)] }

(* ----------------------------- responses ------------------------------ *)

Body(kind, error, items, uname) == [kind |-> kind, error |-> error, items |-> items, uname |-> uname]

\* jsonify({'error': msg}), status
Error(status, msg) == [status |-> status, body |-> Body("error", msg, <<>>, "")]

\* jsonify(result), 200 of a list
Ok(items) == [status |-> 200, body |-> Body("list", "", items, "")]

NoResponse == [status |-> 0, body |-> Body("none", "", <<>>, "")]

\* str(e) of the exceptions the handlers can raise
Message(exc) ==
    CASE exc = "ValueError" -> "invalid literal for int() with base 10"
      [] exc = "TypeError" -> "'NoneType' object is not iterable"
      [] OTHER -> "operation failed"

\* the except clauses of a handler (lines 106-109)
Except(exc) ==
    IF exc \in {"ConnectionFailure", "AutoReconnect"}
    THEN Error(500, "Failed to connect to MongoDB")
    ELSE Error(500, Message(exc))

(* ------------------------------ state --------------------------------- *)

VARIABLES
    db,        \* the hydro database (never written by the gateway)
    req,       \* req[r]: route and query-string parameters of request r
    pc,        \* pc[r]: where request r is in its handler
    client,    \* client[r]: the handler's local variable client (NoClient is None)
    heap,      \* every MongoClient object constructed so far
    resp,      \* resp[r]: the response the handler returns
    attempts,  \* attempts[r]: calls of get_mongo_client by request r
    queries,   \* queries[r]: the collections request r has sent a read to, in order
    raised     \* raised[r]: the exception the handler's except clause caught

vars == <<db, req, pc, client, heap, resp, attempts, queries, raised>>

NoClient == <<0, 0>>

QueryOutcomes == {"ok", "OperationFailure", "AutoReconnect"}

InitRequests ==
    /\ pc = [r \in Requests |-> "idle"]
    /\ client = [r \in Requests |-> NoClient]
    /\ heap = {}
    /\ resp = [r \in Requests |-> NoResponse]
    /\ attempts = [r \in Requests |-> 0]
    /\ queries = [r \in Requests |-> <<>>]
    /\ raised = [r \in Requests |-> "none"]

\* one request with any parameters against any record collection
Init ==
    /\ \E keys \in SeqsUpTo(RecordKeys, MaxRecords) : db = Database(keys)
    /\ \E q \in AllInputs : req = [r \in Requests |-> IF r = 1 THEN q ELSE NoRequest]
    /\ InitRequests

\* concurrent requests, one for each way out of the handlers
InitConc ==
    /\ db = Database(<<[domainId |-> D1, contest |-> ContestA], [domainId |-> D2, contest |-> ContestA]>>)
    /\ req \in [Requests -> PathInputs]
    /\ InitRequests

(* ----------------------------- shaping -------------------------------- *)

NoneValue == "None"

\* lines 63-69
ContestItem(doc) ==
    [_id |-> HexString(doc._id),
     docId |-> str(Get(doc, "docId", PyNone)),
     title |-> doc.title,
     beginAt |-> Get(doc, "beginAt", NoneValue),
     pids |-> Get(doc, "pids", <<>>)]

\* lines 63-69: the list comprehension over the matched contests
ContestItems(documents) == [i \in DOMAIN documents |-> ContestItem(documents[i])]

\* lines 83-89 and 93-100
ProblemItem(doc, score, error) ==
    [_id |-> HexString(doc._id), docId |-> doc.docId, title |-> doc.title, pid |-> doc.pid,
     score |-> score, error |-> error]

RECURSIVE ProblemItems(_)
\* lines 75-100: the loop over the matched problems; an exception other than
\* YAMLError leaves the loop
ProblemItems(docs) ==
    IF docs = <<>> THEN [exc |-> "none", items |-> <<>>]
    ELSE LET total == TotalScore(Head(docs).config)
             rest == ProblemItems(Tail(docs))
         IN  CASE total.exc = "YAMLError" ->
                    [exc |-> rest.exc,
                     items |-> <<ProblemItem(Head(docs), 0, "Invalid config format")>> \o rest.items]
               [] total.exc = "none" ->
                    [exc |-> rest.exc,
                     items |-> <<ProblemItem(Head(docs), total.score, "")>> \o rest.items]
               [] OTHER -> [exc |-> total.exc, items |-> <<>>]

\* lines 142-149
RecordItem(record) ==
    [_id |-> HexString(record._id), status |-> record.status, uid |-> record.uid,
     pid |-> record.pid, score |-> record.score, judgeAt |-> Get(record, "judgeAt", NoneValue)]

\* lines 142-149: the list comprehension over the matched records
RecordItems(records) == [i \in DOMAIN records |-> RecordItem(records[i])]

\* lines 212-216
GroupItem(group) ==
    [_id |-> HexString(group._id), name |-> group.name, uids |-> Get(group, "uids", <<>>)]

\* lines 212-216: the list comprehension over the matched groups
GroupItems(user_groups) == [i \in DOMAIN user_groups |-> GroupItem(user_groups[i])]

(* ------------------------------ filters ------------------------------- *)

\* lines 59-62 and 71-74
DocumentMatches(doc, domain_id, doc_type) == doc.domainId = domain_id /\ doc.docType = doc_type

\* the filter of lines 138-141 without its contest condition
RecordMatchesDomainOnly(record, domain_id, contest_id) == record.domainId = domain_id

\* lines 138-141
RecordMatches(record, domain_id, contest_id) ==
    record.domainId = domain_id /\ record.contest = contest_id

\* lines 208-211
GroupMatches(group, domain_id) == group.domainId = domain_id

\* `not x` of a query-string parameter: absent or empty
Missing(x) == x = None \/ x = <<>>

\* line 53: int(request.args.get('docType', 0))
DocType(args) == IF args.docType = None THEN [ok |-> TRUE, v |-> 0] ELSE int(args.docType)

(* ------------------------------ actions ------------------------------- *)

\* a return statement inside the try block
Return(r, response) ==
    /\ resp' = [resp EXCEPT ![r] = response]
    /\ pc' = [pc EXCEPT ![r] = "finally"]
    /\ UNCHANGED raised

\* an exception that reaches the except clauses
Raise(r, exc) ==
    /\ raised' = [raised EXCEPT ![r] = exc]
    /\ resp' = [resp EXCEPT ![r] = Except(exc)]
    /\ pc' = [pc EXCEPT ![r] = "finally"]

\* Flask dispatches the request to its handler; the handler sets client = None
Arrive(r) ==
    /\ pc[r] = "idle"
    /\ req[r] # NoRequest
    /\ pc' = [pc EXCEPT ![r] = "connect"]
    /\ client' = [client EXCEPT ![r] = NoClient]
    /\ UNCHANGED <<db, req, heap, resp, attempts, queries, raised>>

\* get_mongo_client with a second attempt after a first failed ping
get_mongo_client_retry(r) ==
    /\ pc[r] = "connect"
    /\ \E ping \in {"ok", "ConnectionFailure"} :
          LET id == <<r, attempts[r] + 1>>
          IN  /\ attempts' = [attempts EXCEPT ![r] = @ + 1]
              /\ heap' = heap \cup {[id |-> id, owner |-> r, open |-> TRUE, closedBy |-> {}, usedBy |-> {r}]}
              /\ IF ping = "ok"
                 THEN /\ client' = [client EXCEPT ![r] = id]
                      /\ pc' = [pc EXCEPT ![r] = "body"]
                      /\ UNCHANGED <<resp, raised>>
                 ELSE IF attempts[r] = 0
                      THEN UNCHANGED <<client, pc, resp, raised>>
                      ELSE /\ Raise(r, "ConnectionFailure")
                           /\ UNCHANGED client
    /\ UNCHANGED <<db, req, queries>>

\* client = get_mongo_client(): construct a MongoClient and ping; a failed
\* ping is re-raised and caught by the handler
get_mongo_client(r) ==
    /\ pc[r] = "connect"
    /\ \E ping \in {"ok", "ConnectionFailure"} :
          LET id == <<r, attempts[r] + 1>>
          IN  /\ attempts' = [attempts EXCEPT ![r] = @ + 1]
              /\ heap' = heap \cup {[id |-> id, owner |-> r, open |-> TRUE, closedBy |-> {}, usedBy |-> {r}]}
              /\ IF ping = "ok"
                 THEN /\ client' = [client EXCEPT ![r] = id]
                      /\ pc' = [pc EXCEPT ![r] = "body"]
                      /\ UNCHANGED <<resp, raised>>
                 ELSE /\ Raise(r, "ConnectionFailure")
                      /\ UNCHANGED client
    /\ UNCHANGED <<db, req, queries>>

\* the client sends a read to a collection
Send(r, collection) ==
    /\ queries' = [queries EXCEPT ![r] = Append(@, collection)]
    /\ heap' = {IF c.id = client[r] THEN [c EXCEPT !.usedBy = @ \cup {r}] ELSE c : c \in heap}

\* lines 52-58, 102-103: the parameters of /hydro/document
get_documents(r) ==
    /\ pc[r] = "body"
    /\ req[r].route = "/hydro/document"
    /\ LET domain_id == req[r].args.domainId
           doc_type == DocType(req[r].args)
       IN  IF ~doc_type.ok THEN Raise(r, "ValueError")
           ELSE IF Missing(domain_id) THEN Return(r, Error(400, "domainId is required"))
           ELSE IF doc_type.v \in {30, 10}
                THEN /\ pc' = [pc EXCEPT ![r] = "find"]
                     /\ UNCHANGED <<resp, raised>>
                ELSE Return(r, Error(400, "Invalid docType"))
    /\ UNCHANGED <<db, req, client, heap, attempts, queries>>

\* lines 58-105: db.document.find and the shaping of its result
document_find(r) ==
    /\ pc[r] = "find"
    /\ req[r].route = "/hydro/document"
    /\ Send(r, "document")
    /\ \E outcome \in QueryOutcomes :
          LET domain_id == req[r].args.domainId
              doc_type == DocType(req[r].args).v
              documents == SelectSeq(db.document, LAMBDA doc : DocumentMatches(doc, domain_id, doc_type))
              problems == ProblemItems(documents)
          IN  IF outcome # "ok" THEN Raise(r, outcome)
              ELSE IF doc_type = 30 THEN Return(r, Ok(ContestItems(documents)))
              ELSE IF problems.exc # "none" THEN Raise(r, problems.exc)
              ELSE Return(r, Ok(problems.items))
    /\ UNCHANGED <<db, req, client, attempts>>

\* lines 125-136: the parameters of /hydro/record
get_records(r) ==
    /\ pc[r] = "body"
    /\ req[r].route = "/hydro/record"
    /\ LET domain_id == req[r].args.domainId
           contest_id_str == req[r].args.contest
       IN  IF Missing(domain_id) THEN Return(r, Error(400, "domainId is required"))
           ELSE IF Missing(contest_id_str) THEN Return(r, Error(400, "contest is required"))
           ELSE IF ~ObjectId(contest_id_str).ok THEN Return(r, Error(400, "Invalid contest ObjectId"))
           ELSE /\ pc' = [pc EXCEPT ![r] = "find"]
                /\ UNCHANGED <<resp, raised>>
    /\ UNCHANGED <<db, req, client, heap, attempts, queries>>

\* lines 138-150: db.record.find and the shaping of its result
record_find(r) ==
    /\ pc[r] = "find"
    /\ req[r].route = "/hydro/record"
    /\ Send(r, "record")
    /\ \E outcome \in QueryOutcomes :
          LET domain_id == req[r].args.domainId
              contest_id == ObjectId(req[r].args.contest).v
              records == SelectSeq(db.record, LAMBDA record : RecordMatches(record, domain_id, contest_id))
          IN  IF outcome # "ok" THEN Raise(r, outcome)
              ELSE Return(r, Ok(RecordItems(records)))
    /\ UNCHANGED <<db, req, client, attempts>>

\* lines 168-174: the parameters of /hydro/user
get_user(r) ==
    /\ pc[r] = "body"
    /\ req[r].route = "/hydro/user"
    /\ LET user_id == req[r].args._id
       IN  IF Missing(user_id) THEN Return(r, Error(400, "_id is required"))
           ELSE IF ~isdigit(user_id) THEN Return(r, Error(400, "_id must be an integer"))
           ELSE /\ pc' = [pc EXCEPT ![r] = "find"]
                /\ UNCHANGED <<resp, raised>>
    /\ UNCHANGED <<db, req, client, heap, attempts, queries>>

\* lines 176-184: int(user_id), then db.user.find_one
user_find_one(r) ==
    /\ pc[r] = "find"
    /\ req[r].route = "/hydro/user"
    /\ LET id == int(req[r].args._id)
           found == SelectSeq(db.user, LAMBDA user : user._id = id.v)
       IN  IF ~id.ok
           THEN /\ Raise(r, "ValueError")
                /\ UNCHANGED <<heap, queries>>
           ELSE /\ Send(r, "user")
                /\ \E outcome \in QueryOutcomes :
                      IF outcome # "ok" THEN Raise(r, outcome)
                      ELSE IF found # <<>>
                           THEN Return(r, [status |-> 200, body |-> Body("object", "", <<>>, found[1].uname)])
                           ELSE Return(r, Error(404, "User not found"))
    /\ UNCHANGED <<db, req, client, attempts>>

\* lines 203-206: the parameters of /hydro/user/group
get_user_groups(r) ==
    /\ pc[r] = "body"
    /\ req[r].route = "/hydro/user/group"
    /\ IF Missing(req[r].args.domainId) THEN Return(r, Error(400, "domainId is required"))
       ELSE /\ pc' = [pc EXCEPT ![r] = "find"]
            /\ UNCHANGED <<resp, raised>>
    /\ UNCHANGED <<db, req, client, heap, attempts, queries>>

\* lines 208-217: db['user.group'].find and the shaping of its result
user_group_find(r) ==
    /\ pc[r] = "find"
    /\ req[r].route = "/hydro/user/group"
    /\ Send(r, "user.group")
    /\ \E outcome \in QueryOutcomes :
          LET user_groups == SelectSeq(db.user_group, LAMBDA group : GroupMatches(group, req[r].args.domainId))
          IN  IF outcome # "ok" THEN Raise(r, outcome)
              ELSE Return(r, Ok(GroupItems(user_groups)))
    /\ UNCHANGED <<db, req, client, attempts>>

\* close_mongo_client called on the success path only
close_mongo_client_on_success(r) ==
    heap' = IF client[r] # NoClient /\ resp[r].status = 200
            THEN {IF c.id = client[r] THEN [c EXCEPT !.open = FALSE, !.closedBy = @ \cup {r}] ELSE c : c \in heap}
            ELSE heap

\* close_mongo_client(client): if client: client.close()
close_mongo_client(r) ==
    heap' = IF client[r] # NoClient
            THEN {IF c.id = client[r] THEN [c EXCEPT !.open = FALSE, !.closedBy = @ \cup {r}] ELSE c : c \in heap}
            ELSE heap

\* the finally block of a handler, after which the response is returned
Finally(r) ==
    /\ pc[r] = "finally"
    /\ close_mongo_client(r)
    /\ pc' = [pc EXCEPT ![r] = "done"]
    /\ UNCHANGED <<db, req, client, resp, attempts, queries, raised>>

Next ==
    \E r \in Requests :
        \/ Arrive(r)
        \/ get_mongo_client(r)
        \/ get_documents(r)
        \/ document_find(r)
        \/ get_records(r)
        \/ record_find(r)
        \/ get_user(r)
        \/ user_find_one(r)
        \/ get_user_groups(r)
        \/ user_group_find(r)
        \/ Finally(r)

Spec == Init /\ [][Next]_vars

SpecConc == InitConc /\ [][Next]_vars

(* ------------------------------ claims -------------------------------- *)

Done(r) == pc[r] = "done"

\* get_mongo_client returned a client to request r
Connected(r) == client[r] # NoClient

\* get_mongo_client was called by request r and raised
ConnectFailed(r) == attempts[r] > 0 /\ pc[r] # "connect" /\ client[r] = NoClient

\* the read of request r was answered by the database
NoDriverError(r) == raised[r] \notin {"OperationFailure", "AutoReconnect"}

Route(r) == req[r].route

Present(x) == ~Missing(x)

\* C1: every client a request obtained from get_mongo_client is closed by
\* that request, and by no other, when its response is returned, whatever
\* the status; no client is used or closed by a request that did not create
\* it; when every request is done no obtained client is open.
C1_ClientClosedByItsRequest ==
    /\ \A c \in heap : c.usedBy \subseteq {c.owner} /\ c.closedBy \subseteq {c.owner}
    /\ \A r \in Requests :
          (Done(r) /\ Connected(r)) =>
             /\ resp[r].status \in {200, 400, 404, 500}
             /\ \E c \in heap : c.id = client[r] /\ c.owner = r /\ ~c.open /\ c.closedBy = {r}
    /\ (\A r \in Requests : Done(r)) =>
          \A c \in heap : (\E r \in Requests : client[r] = c.id) => ~c.open

\* two concurrent requests that both connected are done, one answered 400,
\* the other 500 by an exception
C1_Witness ==
    \E r1, r2 \in Requests :
        /\ r1 # r2 /\ Done(r1) /\ Done(r2) /\ Connected(r1) /\ Connected(r2)
        /\ resp[r1].status = 400
        /\ resp[r2].status = 500 /\ raised[r2] = "ValueError"

\* C2 (as claimed): after a request whose ping failed has been answered, no
\* client object it constructed is left open.
C2_NoLeakOnConnectFailure ==
    \A r \in Requests :
        (Done(r) /\ ConnectFailed(r)) => \A c \in heap : c.owner = r => ~c.open

\* C3: a request whose connection attempt failed has called get_mongo_client
\* exactly once, has sent no read, and is answered 500 with the fixed body.
C3_ConnectFailureIs500 ==
    \A r \in Requests :
        (attempts[r] > 0 /\ client[r] = NoClient) =>
            /\ pc[r] \in {"finally", "done"}
            /\ attempts[r] = 1
            /\ queries[r] = <<>>
            /\ resp[r] = Error(500, "Failed to connect to MongoDB")

\* a /hydro/record request with valid parameters was answered after its
\* connection attempt failed
C3_Witness ==
    \E r \in Requests :
        /\ Done(r) /\ ConnectFailed(r)
        /\ Route(r) = "/hydro/record"
        /\ Present(req[r].args.domainId) /\ ObjectId(req[r].args.contest).ok
        /\ resp[r].status = 500

\* the parameter is not in the query string
Absent(x) == x = None

\* C4 (as claimed, for requests that reached the database): a request that
\* misses a required parameter is answered 400 with that parameter's message,
\* whatever its other parameters.
C4_MissingParameterIs400 ==
    \A r \in Requests :
        (Done(r) /\ Connected(r)) =>
            LET a == req[r].args
            IN  /\ (Route(r) \in {"/hydro/document", "/hydro/record", "/hydro/user/group"} /\ Absent(a.domainId))
                      => resp[r] = Error(400, "domainId is required")
                /\ (Route(r) = "/hydro/record" /\ Present(a.domainId) /\ Absent(a.contest))
                      => resp[r] = Error(400, "contest is required")
                /\ (Route(r) = "/hydro/user" /\ Absent(a._id))
                      => resp[r] = Error(400, "_id is required")

\* the parameters the specification accepts on each route
DecimalDigits(s) == Len(s) > 0 /\ \A i \in DOMAIN s : s[i] \in Range(AsciiDigits)

ValidParameters(q) ==
    CASE q.route = "/hydro/document" ->
            Present(q.args.domainId) /\ DocType(q.args).ok /\ DocType(q.args).v \in {10, 30}
      [] q.route = "/hydro/record" ->
            Present(q.args.domainId) /\ Present(q.args.contest) /\ ObjectId(q.args.contest).ok
      [] q.route = "/hydro/user" -> DecimalDigits(q.args._id)
      [] OTHER -> Present(q.args.domainId)

CollectionOf(route) ==
    CASE route = "/hydro/document" -> "document"
      [] route = "/hydro/record" -> "record"
      [] route = "/hydro/user" -> "user"
      [] OTHER -> "user.group"

\* C5 (as claimed, for requests that reached the database): a request with
\* invalid parameters is answered 400 and has sent no read; a request with
\* valid parameters has sent exactly one read, to the collection of its route.
C5_ValidateThenOneQuery ==
    \A r \in Requests :
        (Done(r) /\ Connected(r)) =>
            IF ValidParameters(req[r])
            THEN queries[r] = <<CollectionOf(Route(r))>>
            ELSE resp[r].status = 400 /\ queries[r] = <<>>

\* the score the specification gives a parsed config: the sum of the scores
\* of the entries of subtasks, a missing or null subtasks being empty
ClaimedScore(text) ==
    LET config_data == yaml_safe_load(text).v
        subtasks == IF config_data.ty = "dict" /\ "subtasks" \in DOMAIN config_data.d
                       /\ config_data.d.subtasks.ty = "list"
                    THEN config_data.d.subtasks.l
                    ELSE <<>>
    IN  SumScores(subtasks)

\* the documents a docType=10 request for the domain of request r matches
Problems(r) ==
    SelectSeq(db.document, LAMBDA doc : doc.domainId = req[r].args.domainId /\ doc.docType = 10)

\* request r asked /hydro/document for the problems of a domain and the
\* database answered its read
ProblemRequest(r) ==
    /\ Done(r) /\ Connected(r) /\ NoDriverError(r)
    /\ Route(r) = "/hydro/document"
    /\ Present(req[r].args.domainId)
    /\ DocType(req[r].args).ok /\ DocType(req[r].args).v = 10

\* C6 (as claimed): every matched problem whose config parses is emitted
\* with the sum of its subtask scores (0 for a missing or null subtasks) and
\* without an error.
C6_ScoreIsSumOfSubtasks ==
    \A r \in Requests :
        ProblemRequest(r) =>
            \A i \in DOMAIN Problems(r) :
                yaml_safe_load(Problems(r)[i].config).ok =>
                    \E j \in DOMAIN resp[r].body.items :
                        /\ resp[r].body.items[j]._id = HexString(Problems(r)[i]._id)
                        /\ resp[r].body.items[j].score = ClaimedScore(Problems(r)[i].config)
                        /\ resp[r].body.items[j].error = ""

\* C7 (as claimed): when a matched problem's config fails to parse, the
\* response is still 200 with one item per matched problem in query order,
\* the unparsable ones with score 0 and the error "Invalid config format".
C7_BadConfigDoesNotAbort ==
    \A r \in Requests :
        (ProblemRequest(r) /\ \E i \in DOMAIN Problems(r) : ~yaml_safe_load(Problems(r)[i].config).ok) =>
            /\ resp[r].status = 200
            /\ Len(resp[r].body.items) = Len(Problems(r))
            /\ \A i \in DOMAIN Problems(r) :
                  /\ resp[r].body.items[i]._id = HexString(Problems(r)[i]._id)
                  /\ ~yaml_safe_load(Problems(r)[i].config).ok =>
                        /\ resp[r].body.items[i].score = 0
                        /\ resp[r].body.items[i].error = "Invalid config format"

\* C8 (as claimed, for requests that reached the database): with domainId
\* supplied, a docType other than 10 or 30 is answered 400 "Invalid docType"
\* and no read is sent.
C8_OtherDocTypeIs400 ==
    \A r \in Requests :
        (/\ Done(r) /\ Connected(r)
         /\ Route(r) = "/hydro/document"
         /\ Present(req[r].args.domainId)
         /\ req[r].args.docType \notin {<<"1", "0">>, <<"3", "0">>}) =>
            /\ resp[r] = Error(400, "Invalid docType")
            /\ queries[r] = <<>>

\* C9 (as claimed): with the database reachable, a supplied _id that is not
\* all decimal digits is answered 400, one that is no user's key 404, one
\* that is a user's key 200 with that user's name.
C9_UserOutcomeByIdAlone ==
    \A r \in Requests :
        (/\ Done(r) /\ Connected(r) /\ NoDriverError(r)
         /\ Route(r) = "/hydro/user"
         /\ Present(req[r].args._id)) =>
            LET user_id == req[r].args._id
                users == {i \in DOMAIN db.user : db.user[i]._id = DecimalValue(user_id)}
            IN  IF ~DecimalDigits(user_id) THEN resp[r] = Error(400, "_id must be an integer")
                ELSE IF users = {} THEN resp[r] = Error(404, "User not found")
                ELSE \E i \in users :
                        resp[r] = [status |-> 200, body |-> Body("object", "", <<>>, db.user[i].uname)]

\* the lower-case form of a hex string
LowerCase(s) ==
    [i \in DOMAIN s |-> IF s[i] \in Range(UpperHex) THEN HexDigits[10 + IndexOf(UpperHex, s[i])] ELSE s[i]]

\* request r asked /hydro/record with domainId and contest both supplied
RecordRequest(r) ==
    /\ Done(r)
    /\ Route(r) = "/hydro/record"
    /\ Present(req[r].args.domainId) /\ Present(req[r].args.contest)

\* what C10 says of the answer to request r
RecordAnswer(r) ==
    LET a == req[r].args
        wellFormed == Len(a.contest) = 24 /\ \A i \in DOMAIN a.contest : LowerCase(a.contest)[i] \in Range(HexDigits)
        matching == {i \in DOMAIN db.record :
                        /\ db.record[i].domainId = a.domainId
                        /\ HexString(db.record[i].contest) = LowerCase(a.contest)}
        items == resp[r].body.items
    IN  IF ~wellFormed
        THEN resp[r] = Error(400, "Invalid contest ObjectId") /\ queries[r] = <<>>
        ELSE /\ resp[r].status = 200
             /\ resp[r].body.kind = "list"
             /\ Len(items) = Cardinality(matching)
             /\ \A i \in matching : \E j \in DOMAIN items : items[j] = RecordItem(db.record[i])
             /\ \A j, k \in DOMAIN items : j # k => items[j]._id # items[k]._id

\* C10 (as claimed): on /hydro/record with both parameters supplied, an
\* unparsable contest is answered 400 without a read, and a well-formed one
\* 200 with exactly the records of that domain and contest (none: []).
C10_RecordRouteAsClaimed == \A r \in Requests : RecordRequest(r) => RecordAnswer(r)

\* C10 (amended): the same, for the requests whose connection attempt
\* succeeded and whose read raised no driver error.
C10_RecordRoute ==
    \A r \in Requests : (RecordRequest(r) /\ Connected(r) /\ NoDriverError(r)) => RecordAnswer(r)

\* a well-formed contest written in upper case matched one stored record and
\* not another of the same domain
C10_Witness ==
    \E r \in Requests :
        /\ RecordRequest(r) /\ Connected(r) /\ NoDriverError(r)
        /\ req[r].args.contest = ContestAUpper
        /\ Len(db.record) = 2
        /\ Len(resp[r].body.items) = 1
        /\ resp[r].status = 200

====
